---- MODULE Spec2Model ----
(***************************************************************************)
(* Model of src/src/auto-complete-element.ts: the <auto-complete> custom   *)
(* element.  Two state machines share the module:                          *)
(*   Spec      - the host's engine lifecycle: the association table        *)
(*               `state`, the three bindings, the attribute store and the  *)
(*               custom-element callbacks;                                 *)
(*   FetchSpec - fetchResult, its AbortController and the trusted-types    *)
(*               policy.                                                   *)
(* The engine (./autocomplete.js), the DOM and the network transport are   *)
(* collaborators: the engine is an object with an identity, the fields     *)
(* input / hiddenInput / results it was constructed with, and a log of the *)
(* calls it receives.                                                      *)
(***************************************************************************)
EXTENDS Integers, Sequences, FiniteSets, TLC

\* ------------------------------------------------------------------ bounds
\* Custom-element reactions queued and not yet run.
MaxReactions == 2
\* fetchResult calls over a run.
MaxCalls == 2
\* Policy promises handed to setCSPTrustedTypesPolicy over a run.
MaxPromises == 1

\* ---------------------------------------------------------------- the DOM
NULL == "null"

\* Elements other than the host.  The inputs i1 and i2 are moved in and out
\* of the host's subtree; h1, l1 and l2 stay in the document, outside the
\* host.  Script assigns i2, h1, l1 and l2 to the binding setters.
Inputs == {"i1", "i2"}
HiddenInputs == {"h1"}
Listboxes == {"l1", "l2"}
SubtreeMovable == {"i1", "i2"}
AssignableInputs == {"i2"}
DocumentFixed == {"h1", "l1", "l2"}

\* Document order of the elements a descendant query can match.
DocumentOrder == <<"i1", "i2", "h1">>

VARIABLES
    isConnected,              \* the host is in a document
    reactions,                \* callbacks queued by the browser, oldest first
    subtree,                  \* elements that are descendants of the host
    document,                 \* elements in the document, outside the host
    attrs,                    \* the host's attribute store
    forElementField,          \* #forElement
    inputElementField,        \* #inputElement
    hiddenInputElementField,  \* #hiddenInputElement
    state,                    \* state.get(this): the associated engine
    engines,                  \* the engine objects not yet garbage: id -> status
    peakLive,                 \* most engines alive at once inside the last handler
    call,                     \* the handler that has run and not yet returned
    trace,                    \* what that handler did, in order
    requestController,        \* #requestController: the call that made it, 0 if unset
    calls,                    \* the fetchResult calls made so far
    cspTrustedTypesPolicyPromise,  \* the module's policy promise, 0 for null
    promises,                 \* the policy promises created so far
    honoursAbort,             \* the transport abandons an aborted request
    policyAtCall              \* history: the policy promise at each call of
                              \* fetchResult, where it is recorded

elementVars == <<isConnected, reactions, subtree, document, attrs, forElementField,
                 inputElementField, hiddenInputElementField, state, engines,
                 peakLive>>
fetchVars == <<requestController, calls, cspTrustedTypesPolicyPromise, promises,
               honoursAbort, policyAtCall>>
vars == <<elementVars, call, trace, fetchVars>>

dom == <<isConnected, reactions, subtree, document>>
fields == <<forElementField, inputElementField, hiddenInputElementField>>

\* static get observedAttributes()
observedAttributes == {"open", "value", "for", "data-value"}

\* The values script gives each attribute.
AttrValues(name) ==
    CASE name = "open" -> {""}
      [] name = "value" -> {"abc"}
      [] name = "data-value" -> {"7"}
      [] name = "for" -> {"", "l1"}

\* state.get(this) when the table has no entry for the host.
Undefined == [id |-> 0, input |-> NULL, hiddenInput |-> NULL, results |-> NULL]

\* One entry of a handler's trace.
Ev(op, eng, el, val) == [op |-> op, eng |-> eng, el |-> el, val |-> val]

NoCall == [op |-> "none", name |-> NULL, old |-> NULL]

\* Node.isConnected of an element other than the host.
IsConnectedEl(e) == e \in document \/ (e \in subtree /\ isConnected)

\* this.querySelector(sel): the first descendant, in document order, among
\* those the selector matches.
QuerySelector(matching) ==
    LET hits == {k \in 1..Len(DocumentOrder) :
                    DocumentOrder[k] \in subtree \cap matching}
    IN IF hits = {} THEN NULL
       ELSE DocumentOrder[CHOOSE k \in hits : \A j \in hits : k <= j]

\* root.getElementById(id): the ids are the listboxes' names.
GetElementById(id) ==
    IF id \in Listboxes /\ IsConnectedEl(id) THEN id ELSE NULL

\* A forElement getter that returns the assigned element whether or not it
\* is connected.
ForElementAssignedAlways(ref, at) ==
    IF ref # NULL THEN ref
    ELSE IF at["for"] \notin {NULL, ""} /\ isConnected
         THEN GetElementById(at["for"])
         ELSE NULL

\* get forElement(); the root node is a Document exactly when the host is
\* connected.
ForElement(ref, at) ==
    IF ref # NULL /\ IsConnectedEl(ref) THEN ref
    ELSE IF at["for"] \notin {NULL, ""} /\ isConnected
         THEN GetElementById(at["for"])
         ELSE NULL

\* get inputElement()
InputElement(ref) ==
    IF ref # NULL /\ IsConnectedEl(ref) THEN ref
    ELSE QuerySelector(Inputs \cup HiddenInputs)

\* get hiddenInputElement()
HiddenInputElement(ref) ==
    IF ref # NULL /\ IsConnectedEl(ref) THEN ref
    ELSE QuerySelector(HiddenInputs)

\* ------------------------------------------------------- the engine table
\* A handler works on h = [state, engines, peak, trace].
Live(engs) == Cardinality({k \in DOMAIN engs : engs[k] = "live"})

\* The identity of a newly constructed object: no engine still held has it.
FreshId(engs) ==
    CHOOSE k \in 1..(Cardinality(DOMAIN engs) + 1) :
        /\ k \notin DOMAIN engs
        /\ \A j \in 1..(k - 1) : j \in DOMAIN engs

\* autocomplete.destroy(); the entry records the status the engine had.
Destroy(h, id) ==
    [h EXCEPT !.engines[id] = "destroyed",
              !.trace = Append(@, Ev("destroy", id, NULL, h.engines[id]))]

\* The engine as the element reads it: its input, hiddenInput and results
\* fields are what the constructor was given, the hidden input possibly
\* absent.
Autocomplete(id, input, hidden, results) ==
    [id |-> id, input |-> input, hiddenInput |-> hidden, results |-> results]

\* new Autocomplete(this, inputElement, hiddenInputElement, forElement, ...)
\* followed by state.set(this, ...)
Construct(h, input, hidden, results) ==
    LET id == FreshId(h.engines)
        engs == (id :> "live") @@ h.engines
    IN [state |-> Autocomplete(id, input, hidden, results),
        engines |-> engs,
        peak |-> IF Live(engs) > h.peak THEN Live(engs) ELSE h.peak,
        trace |-> Append(h.trace, Ev("new", id, input, results))]

\* A reattach that constructs without destroying the engine it replaces.
ReattachStateKeepsOld(h, fr, ir, hr, at) ==
    LET f == ForElement(fr, at)
        i == InputElement(ir)
        hid == HiddenInputElement(hr)
    IN IF f = NULL \/ i = NULL THEN h
       ELSE LET c == Construct(h, i, hid, f)
            IN [c EXCEPT !.trace = Append(@, Ev("setRole", 0, f, "listbox"))]

\* #reattachState()
ReattachState(h, fr, ir, hr, at) ==
    LET h1 == IF h.state.id # 0 THEN Destroy(h, h.state.id) ELSE h
        f == ForElement(fr, at)
        i == InputElement(ir)
        hid == HiddenInputElement(hr)
    IN IF f = NULL \/ i = NULL THEN h1
       ELSE LET c == Construct(h1, i, hid, f)
            IN [c EXCEPT !.trace = Append(@, Ev("setRole", 0, f, "listbox"))]

\* The switch of attributeChangedCallback, on the engine read at entry.
Dispatch(h, autocomplete, name, new) ==
    CASE name = "open" ->
           [h EXCEPT !.trace = Append(@,
               Ev(IF new = NULL THEN "close" ELSE "open", autocomplete.id, NULL, NULL))]
      [] name = "data-value" ->
           IF autocomplete.hiddenInput = NULL
           THEN [h EXCEPT !.trace = Append(@, Ev("throw", autocomplete.id, NULL, new))]
           ELSE [h EXCEPT !.trace = Append(@,
                    Ev("setHidden", autocomplete.id, autocomplete.hiddenInput, new))]
      [] name = "value" ->
           LET w == IF new # NULL
                    THEN <<Ev("setInput", autocomplete.id, autocomplete.input, new)>>
                    ELSE <<>>
           IN [h EXCEPT !.trace = @ \o w \o
                  <<Ev("dispatch", autocomplete.id, autocomplete.input, "bubbles")>>]
      [] OTHER -> h

\* attributeChangedCallback without the oldValue === newValue return.
AttributeChangedNoSuppress(h, name, old, new, fr, ir, hr, at) ==
    LET autocomplete == h.state
    IN IF autocomplete.id = 0 THEN h
       ELSE LET h2 == IF ForElement(fr, at) # h.state.results
                         \/ InputElement(ir) # h.state.input
                      THEN ReattachState(h, fr, ir, hr, at)
                      ELSE h
            IN Dispatch(h2, autocomplete, name, new)

\* attributeChangedCallback that notifies only when it wrote the input.
AttributeChangedNotifyOnWrite(h, name, old, new, fr, ir, hr, at) ==
    IF old = new THEN h
    ELSE LET autocomplete == h.state
         IN IF autocomplete.id = 0 THEN h
            ELSE LET h2 == IF ForElement(fr, at) # h.state.results
                              \/ InputElement(ir) # h.state.input
                           THEN ReattachState(h, fr, ir, hr, at)
                           ELSE h
                 IN IF name = "value" /\ new = NULL THEN h2
                    ELSE Dispatch(h2, autocomplete, name, new)

\* attributeChangedCallback(name, oldValue, newValue)
AttributeChangedCallback(h, name, old, new, fr, ir, hr, at) ==
    IF old = new THEN h
    ELSE LET autocomplete == h.state
         IN IF autocomplete.id = 0 THEN h
            ELSE LET h2 == IF ForElement(fr, at) # h.state.results
                              \/ InputElement(ir) # h.state.input
                           THEN ReattachState(h, fr, ir, hr, at)
                           ELSE h
                 IN Dispatch(h2, autocomplete, name, new)

\* The table as a handler finds it.
Entry == [state |-> state, engines |-> engines, peak |-> Live(engines), trace |-> <<>>]

\* A handler's result becomes the next state.  A destroyed engine that the
\* table no longer holds is garbage: nothing can reach it.
Commit(h) ==
    /\ state' = h.state
    /\ engines' = [k \in {j \in DOMAIN h.engines :
                              h.engines[j] = "live" \/ j = h.state.id} |-> h.engines[k]]
    /\ peakLive' = h.peak
    /\ trace' = h.trace
    /\ UNCHANGED fetchVars

\* No handler is on the stack: script or the browser takes the next step.
Idle == call = NoCall

Called(op, name, old) ==
    /\ Idle
    /\ call' = [op |-> op, name |-> name, old |-> old]

\* A step of the browser runs no handler.
NoHandler ==
    /\ Idle
    /\ UNCHANGED <<call, trace, peakLive, fetchVars>>

Constructed ==
    /\ isConnected = FALSE
    /\ reactions = <<>>
    /\ subtree = {}
    /\ document = DocumentFixed
    /\ attrs = [n \in observedAttributes |-> NULL]
    /\ forElementField = NULL
    /\ inputElementField = NULL
    /\ hiddenInputElementField = NULL
    /\ state = Undefined
    /\ engines = <<>>
    /\ peakLive = 0
    /\ call = NoCall
    /\ trace = <<>>
    /\ requestController = 0
    /\ calls = <<>>
    /\ cspTrustedTypesPolicyPromise = 0
    /\ promises = <<>>
    /\ policyAtCall = <<>>

\* The element is studied under a transport that honours abort; fetchResult
\* under either kind of transport.
Init == Constructed /\ honoursAbort = TRUE
FetchInit == Constructed /\ honoursAbort \in BOOLEAN

\* ------------------------------------------------------------ the browser
\* The host is inserted into a document: connectedCallback is queued.
DomInsertHost ==
    /\ ~isConnected
    /\ Len(reactions) < MaxReactions
    /\ isConnected' = TRUE
    /\ reactions' = Append(reactions, "connected")
    /\ NoHandler
    /\ UNCHANGED <<subtree, document, attrs, fields, state, engines>>

\* The host is removed from its document: disconnectedCallback is queued.
DomRemoveHost ==
    /\ isConnected
    /\ Len(reactions) < MaxReactions
    /\ isConnected' = FALSE
    /\ reactions' = Append(reactions, "disconnected")
    /\ NoHandler
    /\ UNCHANGED <<subtree, document, attrs, fields, state, engines>>

\* An element is appended to, or removed from, the host's subtree.
DomAppendChild(e) ==
    /\ reactions = <<>>
    /\ e \notin subtree
    /\ subtree' = subtree \cup {e}
    /\ NoHandler
    /\ UNCHANGED <<isConnected, reactions, document, attrs, fields, state, engines>>

DomRemoveChild(e) ==
    /\ reactions = <<>>
    /\ e \in subtree
    /\ subtree' = subtree \ {e}
    /\ NoHandler
    /\ UNCHANGED <<isConnected, reactions, document, attrs, fields, state, engines>>

\* ------------------------------------------------------------ the handlers
\* The handler returns to its caller: what it did is no longer in view.
Return ==
    /\ ~Idle
    /\ call' = NoCall
    /\ trace' = <<>>
    /\ peakLive' = Live(engines)
    /\ UNCHANGED <<isConnected, reactions, subtree, document, attrs, fields, state,
                   engines, fetchVars>>

\* connectedCallback()
ConnectedCallback ==
    /\ reactions # <<>> /\ Head(reactions) = "connected"
    /\ reactions' = Tail(reactions)
    /\ Called("connectedCallback", NULL, NULL)
    /\ IF ~isConnected THEN Commit(Entry)
       ELSE Commit(ReattachState(Entry, forElementField, inputElementField,
                                 hiddenInputElementField, attrs))
    /\ UNCHANGED <<isConnected, subtree, document, attrs, fields>>

\* disconnectedCallback() that destroys the engine and leaves it in the table.
DisconnectedCallbackKeepsEntry ==
    /\ reactions # <<>> /\ Head(reactions) = "disconnected"
    /\ reactions' = Tail(reactions)
    /\ Called("disconnectedCallback", NULL, NULL)
    /\ IF state.id # 0 THEN Commit(Destroy(Entry, state.id)) ELSE Commit(Entry)
    /\ UNCHANGED <<isConnected, subtree, document, attrs, fields>>

\* disconnectedCallback()
DisconnectedCallback ==
    /\ reactions # <<>> /\ Head(reactions) = "disconnected"
    /\ reactions' = Tail(reactions)
    /\ Called("disconnectedCallback", NULL, NULL)
    /\ IF state.id # 0
       THEN Commit([Destroy(Entry, state.id) EXCEPT !.state = Undefined])
       ELSE Commit(Entry)
    /\ UNCHANGED <<isConnected, subtree, document, attrs, fields>>

\* set forElement(element): the field, then setAttribute('for', ''), whose
\* attributeChangedCallback runs before the setter returns.
SetForElement(el) ==
    /\ reactions = <<>>
    /\ forElementField' = el
    /\ attrs' = [attrs EXCEPT !["for"] = ""]
    /\ Called("set forElement", "for", attrs["for"])
    /\ Commit(AttributeChangedCallback(Entry, "for", attrs["for"], "", el,
                                       inputElementField, hiddenInputElementField,
                                       [attrs EXCEPT !["for"] = ""]))
    /\ UNCHANGED <<dom, inputElementField, hiddenInputElementField>>

\* set inputElement(input) that stores the field and does not reattach.
SetInputElementNoReattach(el) ==
    /\ reactions = <<>>
    /\ inputElementField' = el
    /\ Called("set inputElement", NULL, NULL)
    /\ Commit(Entry)
    /\ UNCHANGED <<dom, attrs, forElementField, hiddenInputElementField>>

\* set inputElement(input)
SetInputElement(el) ==
    /\ reactions = <<>>
    /\ inputElementField' = el
    /\ Called("set inputElement", NULL, NULL)
    /\ Commit(ReattachState(Entry, forElementField, el, hiddenInputElementField, attrs))
    /\ UNCHANGED <<dom, attrs, forElementField, hiddenInputElementField>>

\* set hiddenInputElement(input)
SetHiddenInputElement(el) ==
    /\ reactions = <<>>
    /\ hiddenInputElementField' = el
    /\ Called("set hiddenInputElement", NULL, NULL)
    /\ Commit(ReattachState(Entry, forElementField, inputElementField, el, attrs))
    /\ UNCHANGED <<dom, attrs, forElementField, inputElementField>>

\* this.setAttribute(name, value), from the value / dataValue / open setters
\* or from script: the browser calls attributeChangedCallback with the old
\* and the new value, also when they are equal.
SetAttribute(name, v) ==
    /\ reactions = <<>>
    /\ attrs' = [attrs EXCEPT ![name] = v]
    /\ Called("attributeChangedCallback", name, attrs[name])
    /\ Commit(AttributeChangedCallback(Entry, name, attrs[name], v, forElementField,
                                       inputElementField, hiddenInputElementField,
                                       [attrs EXCEPT ![name] = v]))
    /\ UNCHANGED <<dom, fields>>

\* this.removeAttribute(name) of an attribute that is present.
RemoveAttribute(name) ==
    /\ reactions = <<>>
    /\ attrs[name] # NULL
    /\ attrs' = [attrs EXCEPT ![name] = NULL]
    /\ Called("attributeChangedCallback", name, attrs[name])
    /\ Commit(AttributeChangedCallback(Entry, name, attrs[name], NULL, forElementField,
                                       inputElementField, hiddenInputElementField,
                                       [attrs EXCEPT ![name] = NULL]))
    /\ UNCHANGED <<dom, fields>>

Next ==
    \/ DomInsertHost
    \/ DomRemoveHost
    \/ \E e \in SubtreeMovable : DomAppendChild(e)
    \/ \E e \in SubtreeMovable : DomRemoveChild(e)
    \/ ConnectedCallback
    \/ DisconnectedCallback
    \/ \E el \in Listboxes \cup {NULL} : SetForElement(el)
    \/ \E el \in AssignableInputs \cup {NULL} : SetInputElement(el)
    \/ \E el \in HiddenInputs \cup {NULL} : SetHiddenInputElement(el)
    \/ \E name \in observedAttributes : \E v \in AttrValues(name) : SetAttribute(name, v)
    \/ \E name \in observedAttributes : RemoveAttribute(name)
    \/ Return

Spec == Init /\ [][Next]_vars

\* ---------------------------------------------------------- fetchResult
Urls == {"urlA", "urlB"}

\* What the transport answers: res.ok and the text of the body.
Responses == {[ok |-> TRUE, body |-> <<"h", "i">>],
              [ok |-> FALSE, body |-> <<"n", "o">>]}

\* The policies script installs, and what their createHTML does to a text.
Policies == {"upper", "quote"}
UpperChar(c) ==
    CASE c = "h" -> "H" [] c = "i" -> "I" [] c = "n" -> "N" [] c = "o" -> "O"
      [] OTHER -> c
CreateHTML(policy, text) ==
    CASE policy = "upper" -> [k \in DOMAIN text |-> UpperChar(text[k])]
      [] policy = "quote" -> <<"'">> \o text \o <<"'">>

NoResult == [kind |-> "none", error |-> "none", text |-> <<>>]
Resolved(text) == [kind |-> "resolved", error |-> "none", text |-> text]
Rejected(error, text) == [kind |-> "rejected", error |-> error, text |-> text]

\* A fetchResult call up to its first await: its AbortController, the
\* request it issued, and where its continuation stands.
NewCall(url) ==
    [url |-> url, aborted |-> FALSE, inFlightWhenAborted |-> FALSE,
     net |-> "pending", ok |-> FALSE, body |-> <<>>,
     pc |-> "fetch", policy |-> 0, result |-> NoResult]

\* controller.abort(): the signal fires; the entry records whether the call
\* it belongs to had settled.
Abort(cs, i) ==
    [cs EXCEPT ![i].aborted = TRUE,
               ![i].inFlightWhenAborted = @ \/ (~cs[i].aborted /\ cs[i].pc # "done")]

\* fetchResult that issues the new request before it aborts the previous one.
FetchResultStartAbortsLate(cs, rc, url) ==
    LET n == Len(cs) + 1
    IN [calls |-> Append(IF rc # 0 THEN Abort(cs, rc) ELSE cs, NewCall(url)),
        requestController |-> n,
        trace |-> <<Ev("fetch", n, url, "text/fragment+html")>> \o
                  (IF rc # 0 THEN <<Ev("abort", rc, NULL, NULL)>> ELSE <<>>)]

\* fetchResult that aborts the previous controller only while its call is
\* unsettled.
FetchResultStartAbortsPending(cs, rc, url) ==
    LET n == Len(cs) + 1
        live == rc # 0 /\ cs[rc].pc # "done"
    IN [calls |-> Append(IF live THEN Abort(cs, rc) ELSE cs, NewCall(url)),
        requestController |-> n,
        trace |-> (IF live THEN <<Ev("abort", rc, NULL, NULL)>> ELSE <<>>) \o
                  <<Ev("fetch", n, url, "text/fragment+html")>>]

\* fetchResult(url) up to `await fetch(...)`.
FetchResultStart(cs, rc, url) ==
    LET n == Len(cs) + 1
    IN [calls |-> Append(IF rc # 0 THEN Abort(cs, rc) ELSE cs, NewCall(url)),
        requestController |-> n,
        trace |-> (IF rc # 0 THEN <<Ev("abort", rc, NULL, NULL)>> ELSE <<>>) \o
                  <<Ev("fetch", n, url, "text/fragment+html")>>]

FetchResult(url) ==
    /\ Idle
    /\ Len(calls) < MaxCalls
    /\ LET r == FetchResultStart(calls, requestController, url)
       IN /\ calls' = r.calls
          /\ requestController' = r.requestController
          /\ trace' = r.trace
    /\ call' = [op |-> "fetchResult", name |-> url, old |-> NULL]
    /\ UNCHANGED <<cspTrustedTypesPolicyPromise, promises, honoursAbort, elementVars>>

\* A step other than a call of fetchResult.
NoFetchCall == Idle /\ UNCHANGED <<call, trace, elementVars, policyAtCall>>

\* The transport answers request i; one that honours abort answers no
\* aborted request.
Respond(i, r) ==
    /\ calls[i].pc = "fetch"
    /\ calls[i].net = "pending"
    /\ honoursAbort => ~calls[i].aborted
    /\ calls' = [calls EXCEPT ![i].net = "responded", ![i].ok = r.ok, ![i].body = r.body]
    /\ NoFetchCall
    /\ UNCHANGED <<requestController, cspTrustedTypesPolicyPromise, promises, honoursAbort>>

\* `await fetch(...)` rejects: the transport saw the abort signal.
FetchAborted(i) ==
    /\ calls[i].pc = "fetch"
    /\ calls[i].net = "pending"
    /\ honoursAbort /\ calls[i].aborted
    /\ calls' = [calls EXCEPT ![i].net = "failed", ![i].pc = "done",
                              ![i].result = Rejected("AbortError", <<>>)]
    /\ NoFetchCall
    /\ UNCHANGED <<requestController, cspTrustedTypesPolicyPromise, promises, honoursAbort>>

\* A continuation that does not test res.ok: every response is treated as a
\* success.
AfterFetchIgnoresOk(i) ==
    /\ calls[i].pc = "fetch"
    /\ calls[i].net = "responded"
    /\ calls' = [calls EXCEPT
           ![i].pc = IF cspTrustedTypesPolicyPromise # 0 THEN "policy" ELSE "text",
           ![i].policy = cspTrustedTypesPolicyPromise]
    /\ NoFetchCall
    /\ UNCHANGED <<requestController, cspTrustedTypesPolicyPromise, promises, honoursAbort>>

\* A continuation that uses the policy promise that was configured when
\* fetchResult was called.
AfterFetchPolicyAtCall(i) ==
    /\ calls[i].pc = "fetch"
    /\ calls[i].net = "responded"
    /\ calls' = [calls EXCEPT
           ![i].pc = IF ~calls[i].ok THEN "errorText"
                     ELSE IF policyAtCall[i] # 0 THEN "policy"
                     ELSE "text",
           ![i].policy = IF calls[i].ok THEN policyAtCall[i] ELSE 0]
    /\ NoFetchCall
    /\ UNCHANGED <<requestController, cspTrustedTypesPolicyPromise, promises, honoursAbort>>

\* `await fetch(...)` resumes with the response: the res.ok test and the
\* read of cspTrustedTypesPolicyPromise, up to the next await.
AfterFetch(i) ==
    /\ calls[i].pc = "fetch"
    /\ calls[i].net = "responded"
    /\ calls' = [calls EXCEPT
           ![i].pc = IF ~calls[i].ok THEN "errorText"
                     ELSE IF cspTrustedTypesPolicyPromise # 0 THEN "policy"
                     ELSE "text",
           ![i].policy = IF calls[i].ok THEN cspTrustedTypesPolicyPromise ELSE 0]
    /\ NoFetchCall
    /\ UNCHANGED <<requestController, cspTrustedTypesPolicyPromise, promises, honoursAbort>>

\* `await cspTrustedTypesPolicyPromise` resumes; res.text() is called next.
AfterPolicy(i) ==
    /\ calls[i].pc = "policy"
    /\ promises[calls[i].policy].settled
    /\ calls' = [calls EXCEPT ![i].pc = "policyText"]
    /\ NoFetchCall
    /\ UNCHANGED <<requestController, cspTrustedTypesPolicyPromise, promises, honoursAbort>>

\* A continuation that returns the response text as it is, whatever policy
\* was awaited.
AfterTextSkipsPolicy(i) ==
    /\ calls[i].pc \in {"errorText", "policyText", "text"}
    /\ calls' = [calls EXCEPT
           ![i].pc = "done",
           ![i].result =
               IF honoursAbort /\ calls[i].aborted THEN Rejected("AbortError", <<>>)
               ELSE IF calls[i].pc = "errorText" THEN Rejected("Error", calls[i].body)
               ELSE Resolved(calls[i].body)]
    /\ NoFetchCall
    /\ UNCHANGED <<requestController, cspTrustedTypesPolicyPromise, promises, honoursAbort>>

\* `await res.text()` settles and the call ends: throw new Error(text),
\* createHTML(text, res) or the text.  Under a transport that honours abort
\* the read of an aborted request's body rejects.
AfterText(i) ==
    /\ calls[i].pc \in {"errorText", "policyText", "text"}
    /\ calls' = [calls EXCEPT
           ![i].pc = "done",
           ![i].result =
               IF honoursAbort /\ calls[i].aborted THEN Rejected("AbortError", <<>>)
               ELSE CASE calls[i].pc = "errorText" -> Rejected("Error", calls[i].body)
                      [] calls[i].pc = "policyText" ->
                           Resolved(CreateHTML(promises[calls[i].policy].policy,
                                               calls[i].body))
                      [] calls[i].pc = "text" -> Resolved(calls[i].body)]
    /\ NoFetchCall
    /\ UNCHANGED <<requestController, cspTrustedTypesPolicyPromise, promises, honoursAbort>>

\* setCSPTrustedTypesPolicy(policy): a policy is wrapped in a resolved
\* promise, a promise of a policy may still be pending, null clears.
SetCSPTrustedTypesPolicy(policy, settled) ==
    /\ Len(promises) < MaxPromises
    /\ promises' = Append(promises, [policy |-> policy, settled |-> settled])
    /\ cspTrustedTypesPolicyPromise' = Len(promises) + 1
    /\ NoFetchCall
    /\ UNCHANGED <<requestController, calls, honoursAbort>>

ClearCSPTrustedTypesPolicy ==
    /\ cspTrustedTypesPolicyPromise # 0
    /\ cspTrustedTypesPolicyPromise' = 0
    /\ NoFetchCall
    /\ UNCHANGED <<requestController, calls, promises, honoursAbort>>

\* A promise of a policy handed to setCSPTrustedTypesPolicy resolves.
PolicyPromiseResolves(k) ==
    /\ ~promises[k].settled
    /\ promises' = [promises EXCEPT ![k].settled = TRUE]
    /\ NoFetchCall
    /\ UNCHANGED <<requestController, calls, cspTrustedTypesPolicyPromise, honoursAbort>>

\* What follows a call of fetchResult, and the policy setter.
FetchSteps ==
    \/ \E i \in DOMAIN calls : \E r \in Responses : Respond(i, r)
    \/ \E i \in DOMAIN calls : FetchAborted(i)
    \/ \E i \in DOMAIN calls : AfterFetch(i)
    \/ \E i \in DOMAIN calls : AfterPolicy(i)
    \/ \E i \in DOMAIN calls : AfterText(i)
    \/ \E p \in Policies : \E settled \in BOOLEAN : SetCSPTrustedTypesPolicy(p, settled)
    \/ ClearCSPTrustedTypesPolicy
    \/ \E k \in DOMAIN promises : PolicyPromiseResolves(k)
    \/ Return

FetchNext ==
    \/ \E url \in Urls : FetchResult(url) /\ UNCHANGED policyAtCall
    \/ FetchSteps

FetchSpec == FetchInit /\ [][FetchNext]_vars

\* fetchResult with the policy promise of the moment of each call on
\* record, under a transport that honours abort; the URL plays no part in
\* the choice of the policy.
PolicyInit == Init

FetchResultRecorded ==
    /\ FetchResult("urlA")
    /\ policyAtCall' = Append(policyAtCall, cspTrustedTypesPolicyPromise)

PolicyNext ==
    \/ FetchResultRecorded
    \/ FetchSteps

PolicySpec == PolicyInit /\ [][PolicyNext]_vars

\* ------------------------------------------------- the binding accessors
\* The three getters are functions of the fields, the for attribute and the
\* DOM.  They are read here over every placement of the elements: each of
\* them in the document outside the host, or in no document, and the inputs
\* also inside the host.  No lifecycle callback or setter runs; the fields
\* and the attribute are what earlier assignments left.
ResolveInit ==
    /\ isConnected \in BOOLEAN
    /\ reactions = <<>>
    /\ subtree = {}
    /\ document = DocumentFixed
    /\ attrs \in {[n \in observedAttributes |-> IF n = "for" THEN v ELSE NULL] :
                    v \in Listboxes \cup {NULL, ""}}
    /\ forElementField \in Listboxes \cup {NULL}
    /\ inputElementField \in Inputs \cup {NULL}
    /\ hiddenInputElementField \in HiddenInputs \cup {NULL}
    /\ state = Undefined
    /\ engines = <<>>
    /\ peakLive = 0
    /\ call = NoCall
    /\ trace = <<>>
    /\ requestController = 0
    /\ calls = <<>>
    /\ cspTrustedTypesPolicyPromise = 0
    /\ promises = <<>>
    /\ policyAtCall = <<>>
    /\ honoursAbort = TRUE

\* An element is moved into the host, into the document outside the host,
\* or out of any document.
DomMoveIntoHost(e) ==
    /\ e \notin subtree
    /\ subtree' = subtree \cup {e}
    /\ document' = document \ {e}
    /\ NoHandler
    /\ UNCHANGED <<isConnected, reactions, attrs, fields, state, engines>>

DomMoveIntoDocument(e) ==
    /\ e \notin document
    /\ document' = document \cup {e}
    /\ subtree' = subtree \ {e}
    /\ NoHandler
    /\ UNCHANGED <<isConnected, reactions, attrs, fields, state, engines>>

DomDetach(e) ==
    /\ e \in subtree \cup document
    /\ document' = document \ {e}
    /\ subtree' = subtree \ {e}
    /\ NoHandler
    /\ UNCHANGED <<isConnected, reactions, attrs, fields, state, engines>>

\* Script reads host.forElement, host.inputElement and
\* host.hiddenInputElement.
GetBindings ==
    /\ Called("get bindings", NULL, NULL)
    /\ trace' = <<Ev("get forElement", 0, ForElement(forElementField, attrs), NULL),
                  Ev("get inputElement", 0, InputElement(inputElementField), NULL),
                  Ev("get hiddenInputElement", 0,
                     HiddenInputElement(hiddenInputElementField), NULL)>>
    /\ UNCHANGED <<elementVars, fetchVars>>

ResolveNext ==
    \/ \E e \in Inputs \cup HiddenInputs : DomMoveIntoHost(e)
    \/ \E e \in Inputs \cup HiddenInputs \cup Listboxes : DomMoveIntoDocument(e)
    \/ \E e \in Inputs \cup HiddenInputs \cup Listboxes : DomDetach(e)
    \/ GetBindings
    \/ Return

ResolveSpec == ResolveInit /\ [][ResolveNext]_vars

\* ------------------------------------------------------------------ claims
\* Positions of the entries of a trace with a given operation.
AtIn(tr, op) == {k \in DOMAIN tr : tr[k].op = op}
At(op) == AtIn(trace, op)

\* What attributeChangedCallback asks of an engine, and the notification.
EngineCommands == {"open", "close", "setInput", "setHidden"}
Issued(tr) == {k \in DOMAIN tr : tr[k].op \in EngineCommands \cup {"dispatch"}}

AttributeReaction == call.op \in {"attributeChangedCallback", "set forElement"}

\* C1: the engines constructed for the host and not yet destroyed number at
\* most one in every state, and at every instant inside a handler: a
\* reattach destroys the old engine before it constructs the new one.
C1_AtMostOneLiveEngine == Live(engines) <= 1 /\ peakLive <= 1

\* A reattach has replaced a live engine by a new one.
C1_Witness ==
    /\ \E j \in At("destroy") : \E k \in At("new") : j < k /\ trace[j].val = "live"
    /\ peakLive = 1
    /\ Live(engines) = 1

\* C2: when attributeChangedCallback reattaches, the command that follows
\* goes to the engine associated with the host after the reattach, never
\* to the engine the reattach destroyed.
C2_CommandAfterReattachOnNewEngine ==
    AttributeReaction =>
        \A j \in At("destroy") : \A k \in Issued(trace) :
            k > j => /\ trace[k].eng # trace[j].eng
                     /\ trace[k].eng = state.id

\* C3: an `open` transition on a host with an associated engine makes
\* exactly one call, open() when the attribute became present and close()
\* when it became absent, on the engine associated with the host when the
\* call is made.
C3_OpenCloseOnCurrentEngine ==
    (/\ call.op = "attributeChangedCallback"
     /\ call.name = "open"
     /\ call.old # attrs["open"]
     /\ state.id # 0)
    => LET cmds == At("open") \cup At("close")
       IN /\ Cardinality(cmds) = 1
          /\ \A k \in cmds :
                /\ trace[k].op = IF attrs["open"] = NULL THEN "close" ELSE "open"
                /\ trace[k].eng = state.id

\* C4: attributeChangedCallback with oldValue equal to newValue does
\* nothing: no engine command, no notification, no destroy, no construction.
C4_NoOpSuppressed ==
    (AttributeReaction /\ call.old = attrs[call.name]) => trace = <<>>

\* An attribute was set to the value it had, on a host whose engine no
\* longer matches the resolved input.
C4_Witness ==
    /\ call.op = "attributeChangedCallback"
    /\ call.name = "value"
    /\ call.old = attrs["value"]
    /\ state.id # 0
    /\ InputElement(inputElementField) # state.input

\* C5: a `value` transition on a host with an associated engine dispatches
\* exactly one bubbling notification whose relatedTarget is that engine's
\* input, and writes the input, before the notification, exactly when the
\* new value is not null.
C5_ValueTransition ==
    [][(/\ call'.op = "attributeChangedCallback"
        /\ call'.name = "value"
        /\ call'.old # attrs'["value"]
        /\ state.id # 0)
       => LET d == AtIn(trace', "dispatch")
              w == AtIn(trace', "setInput")
          IN /\ Cardinality(d) = 1
             /\ \A k \in d : trace'[k].el = state.input /\ trace'[k].val = "bubbles"
             /\ IF attrs'["value"] = NULL THEN w = {}
                ELSE /\ Cardinality(w) = 1
                     /\ \A j \in w : /\ trace'[j].el = state.input
                                     /\ trace'[j].val = attrs'["value"]
                                     /\ \A k \in d : j < k]_vars

\* `value` was removed: a notification and no write.
C5_Witness ==
    /\ call.op = "attributeChangedCallback"
    /\ call.name = "value"
    /\ call.old = "abc"
    /\ attrs["value"] = NULL
    /\ At("dispatch") # {}
    /\ At("setInput") = {}

\* C8: assigning a connected input to inputElement, on a host with an
\* associated engine and a resolvable for-target, destroys that engine and
\* then constructs the engine the host is left with, whose input is the
\* assigned element, before the setter returns.
C8_SetInputElementRebuilds ==
    [][(/\ call'.op = "set inputElement"
        /\ state.id # 0
        /\ inputElementField' # NULL
        /\ IsConnectedEl(inputElementField')
        /\ ForElement(forElementField, attrs) # NULL)
       => /\ \E j \in AtIn(trace', "destroy") : \E k \in AtIn(trace', "new") :
                /\ j < k
                /\ trace'[j].eng = state.id
                /\ trace'[k].eng = state'.id
          /\ state'.id # state.id
          /\ state'.input = inputElementField'
          /\ engines'[state'.id] = "live"]_vars

\* inputElement was assigned i2 on a host whose live engine had another input.
C8_Witness ==
    /\ call.op = "set inputElement"
    /\ inputElementField = "i2"
    /\ state.input = "i2"
    /\ \E j \in At("destroy") : \E k \in At("new") :
          j < k /\ trace[j].val = "live" /\ trace[k].eng = state.id

\* C9: after disconnectedCallback the table has no engine for the host, no
\* engine of the host is left alive, and none was constructed.
C9_DisconnectedClears ==
    call.op = "disconnectedCallback" =>
        /\ state = Undefined
        /\ Live(engines) = 0
        /\ At("new") = {}

\* disconnectedCallback found a live engine and destroyed it.
C9_Witness ==
    /\ call.op = "disconnectedCallback"
    /\ \E j \in At("destroy") : trace[j].val = "live"

\* C10: on a connected host, once connectedCallback, a binding setter or an
\* attribute mutation has completed with both a for-target and an input
\* resolvable, a live engine is associated with the host.
C10_EngineWhenBothResolve ==
    (/\ call.op # "none"
     /\ isConnected
     /\ reactions = <<>>
     /\ ForElement(forElementField, attrs) # NULL
     /\ InputElement(inputElementField) # NULL)
    => /\ state.id # 0
       /\ engines[state.id] = "live"

\* C6: when fetchResult is called while the previous call's request is
\* unresolved, the previous request's abort signal fires before the new
\* request is issued, and under a transport that honours abort a call
\* superseded in flight never settles with a response text: it rejects with
\* the transport's cancellation.
C6_AbortBeforeNextFetch ==
    /\ \A k \in At("fetch") :
          trace[k].eng > 1 =>
              \E j \in At("abort") : j < k /\ trace[j].eng = trace[k].eng - 1
    /\ honoursAbort =>
          \A i \in DOMAIN calls :
              calls[i].inFlightWhenAborted =>
                  \/ calls[i].result = NoResult
                  \/ calls[i].result = Rejected("AbortError", <<>>)

\* urlA's call was superseded in flight and rejected with the cancellation;
\* urlB's call resolved with its result.
C6_Witness ==
    /\ honoursAbort
    /\ Len(calls) = 2
    /\ calls[1].url = "urlA" /\ calls[2].url = "urlB"
    /\ calls[1].inFlightWhenAborted
    /\ calls[1].result = Rejected("AbortError", <<>>)
    /\ calls[2].result.kind = "resolved"

\* C7: of the AbortControllers fetchResult has created for the host, only
\* the one of the most recent call can be un-aborted; every earlier one has
\* been aborted, whether or not its request had completed.
C7_OnlyLatestControllerLive ==
    /\ requestController = Len(calls)
    /\ \A i \in DOMAIN calls : i < Len(calls) => calls[i].aborted

\* A call that had already resolved was aborted by the next call.
C7_Witness ==
    /\ Len(calls) = 2
    /\ calls[1].result.kind = "resolved"
    /\ calls[1].aborted
    /\ ~calls[1].inFlightWhenAborted
    /\ ~calls[2].aborted

\* Calls whose request was answered, calls that have settled, and calls
\* whose controller was aborted before they settled under a transport that
\* acts on the signal.
Answered(i) == calls[i].net = "responded"
Settled(i) == calls[i].pc = "done"
Superseded(i) == honoursAbort /\ calls[i].inFlightWhenAborted

\* C11: a fetchResult call whose response is not a success ends rejected,
\* never resolved; the error is an Error whose message is the text of the
\* response body (the abort error instead when the call was superseded and
\* the transport cut the body short); the policy promise is not consulted
\* and the body reaches the caller unconverted; and no call is left
\* unsettled after its body was read, so nothing is swallowed.
C11_NonSuccessRejectsWithBody ==
    \A i \in DOMAIN calls :
        Answered(i) /\ ~calls[i].ok =>
            /\ calls[i].pc \in {"fetch", "errorText", "done"}
            /\ calls[i].policy = 0
            /\ Settled(i) =>
                   /\ calls[i].result.kind = "rejected"
                   /\ IF Superseded(i)
                      THEN calls[i].result = Rejected("AbortError", <<>>)
                      ELSE calls[i].result = Rejected("Error", calls[i].body)

\* A call ended with the body of a non-success response as its error while
\* a policy was configured.
C11_Witness ==
    \E i \in DOMAIN calls :
        /\ Answered(i) /\ ~calls[i].ok /\ Settled(i)
        /\ cspTrustedTypesPolicyPromise # 0
        /\ calls[i].result = Rejected("Error", <<"n", "o">>)

\* C12: a fetchResult call whose response is a success resolves to the
\* policy's createHTML of the body text when it awaited a policy promise,
\* which has settled by then, and to the body text itself when the policy
\* promise it read was null.
C12_SuccessResolvesSanitized ==
    \A i \in DOMAIN calls :
        Answered(i) /\ calls[i].ok /\ Settled(i) /\ ~Superseded(i) =>
            IF calls[i].policy # 0
            THEN /\ promises[calls[i].policy].settled
                 /\ calls[i].result =
                        Resolved(CreateHTML(promises[calls[i].policy].policy,
                                            calls[i].body))
            ELSE calls[i].result = Resolved(calls[i].body)

\* With the upper-casing policy the body <<"h","i">> has come back as
\* <<"H","I">>.
C12_Witness ==
    \E i \in DOMAIN calls :
        /\ Answered(i) /\ calls[i].ok /\ Settled(i)
        /\ calls[i].policy # 0
        /\ promises[calls[i].policy].policy = "upper"
        /\ calls[i].body = <<"h", "i">>
        /\ calls[i].result = Resolved(<<"H", "I">>)

\* What a call that was answered with a success and ran to its end owes its
\* caller under a given policy promise.
Sanitized(i, p) ==
    IF p = 0 THEN Resolved(calls[i].body)
    ELSE Resolved(CreateHTML(promises[p].policy, calls[i].body))

\* C15 as stated: a successful call resolves to its body converted by the
\* policy that was configured when fetchResult was called, and to the body
\* itself when none was configured then.
C15_PolicyAtCall ==
    \A i \in DOMAIN calls :
        Answered(i) /\ calls[i].ok /\ Settled(i) /\ ~Superseded(i) =>
            calls[i].result = Sanitized(i, policyAtCall[i])

\* C15: a successful call converts with the policy promise that is
\* configured when the call resumes with its response: that is the promise
\* the continuation takes, a later setCSPTrustedTypesPolicy does not change
\* the promise a call has taken, and the call resolves by it.
C15_PolicyAtResponse ==
    [][\A i \in DOMAIN calls :
          /\ calls[i].pc = "fetch" /\ calls'[i].pc # "fetch" /\ Answered(i) /\ calls[i].ok
                => calls'[i].policy = cspTrustedTypesPolicyPromise
          /\ calls[i].pc \in {"policy", "policyText", "text"}
                => /\ calls'[i].policy = calls[i].policy
                   /\ Settled(i)' /\ ~Superseded(i)
                         => calls'[i].result = Sanitized(i, calls[i].policy)]_vars

\* A call made while no policy was configured has resolved to the converted
\* body, the policy having been set while the request was in flight.
C15_Witness ==
    \E i \in DOMAIN calls :
        /\ Answered(i) /\ calls[i].ok /\ Settled(i)
        /\ policyAtCall[i] = 0
        /\ calls[i].policy # 0
        /\ calls[i].result = Resolved(CreateHTML(promises[calls[i].policy].policy,
                                                 calls[i].body))

\* The handler on the stack is one that always runs #reattachState: the two
\* input setters, and connectedCallback on a connected host.
Reattached ==
    \/ call.op \in {"set inputElement", "set hiddenInputElement"}
    \/ call.op = "connectedCallback" /\ isConnected

Resolvable ==
    /\ ForElement(forElementField, attrs) # NULL
    /\ InputElement(inputElementField) # NULL

\* C13: after a reattach that found the for-target or the input absent the
\* host's table holds no engine; stated for a connected host.
C13_ReattachAbsentClearsTable ==
    isConnected /\ Reattached /\ ~Resolvable => state = Undefined

TableLive == state.id # 0 /\ engines[state.id] = "live"

\* C14: an attribute mutation on a host that has no live engine does no
\* work: no engine command, no notification, no reattach, the table left as
\* it was; stated for a connected host.
C14_NoLiveEngineNoWork ==
    [][Idle /\ AttributeReaction' /\ isConnected /\ ~TableLive
          => trace' = <<>> /\ state' = state /\ engines' = engines]_vars

\* C16: assigning a connected element E to forElement on a connected host
\* whose engine is live, its input still resolving, leaves the for attribute
\* present and empty and the host with a live engine built with E, whatever
\* the for attribute was before.
C16_SetForElementRebuilds ==
    [][/\ Idle /\ call'.op = "set forElement"
       /\ isConnected /\ TableLive
       /\ forElementField' # NULL /\ IsConnectedEl(forElementField')
       /\ InputElement(inputElementField) # NULL
       => /\ attrs'["for"] = ""
          /\ TableLive'
          /\ state'.results = forElementField']_vars

\* C18: the engine the table holds is not destroyed, destroy() is called on
\* no engine that is already destroyed, and no command goes to an engine
\* after its destroy().
C18_NoUseAfterDestroy ==
    /\ state.id # 0 => engines[state.id] = "live"
    /\ \A k \in At("destroy") : trace[k].val = "live"
    /\ \A j \in At("destroy") : \A k \in DOMAIN trace :
           j < k /\ trace[k].eng = trace[j].eng => trace[k].op \notin EngineCommands

\* C19: while the host is detached and no lifecycle callback is pending, no
\* engine that was constructed is left un-destroyed.
C19_NoEngineWhileDetached ==
    ~isConnected /\ reactions = <<>> => Live(engines) = 0

\* C20: a mutation of data-value never raises, and what it writes goes to a
\* hidden input that exists and is the new value of the attribute; stated
\* for a connected host.
C20_DataValueNeverRaises ==
    isConnected /\ call.op = "attributeChangedCallback" /\ call.name = "data-value" =>
        /\ At("throw") = {}
        /\ \A k \in At("setHidden") :
               trace[k].el # NULL /\ trace[k].val = attrs["data-value"]

\* What the lookups find: the connected element whose id is the for
\* attribute, through the document of a connected host; the first descendant
\* input of any type; the first descendant hidden input.
ForLookup ==
    IF isConnected /\ attrs["for"] \in Listboxes /\ attrs["for"] \in document
    THEN attrs["for"] ELSE NULL
InputLookup ==
    IF "i1" \in subtree THEN "i1"
    ELSE IF "i2" \in subtree THEN "i2"
    ELSE IF "h1" \in subtree THEN "h1" ELSE NULL
HiddenLookup == IF "h1" \in subtree THEN "h1" ELSE NULL

Assigned(field) == field # NULL /\ (field \in document \/ (isConnected /\ field \in subtree))

\* C17: each of forElement, inputElement and hiddenInputElement reads as the
\* assigned element when one is assigned and connected at that moment, and
\* as exactly what its lookup finds otherwise, so that an assigned element
\* that is taken out of the document gives way to the lookup and is read
\* again once it is back.
C17_AccessorsResolve ==
    call.op = "get bindings" =>
        /\ trace[1].el = IF Assigned(forElementField) THEN forElementField ELSE ForLookup
        /\ trace[2].el = IF Assigned(inputElementField) THEN inputElementField
                         ELSE InputLookup
        /\ trace[3].el = IF Assigned(hiddenInputElementField) THEN hiddenInputElementField
                         ELSE HiddenLookup

\* One read in which the assigned for-target is out of the document and the
\* id lookup answers with another element, the assigned input is out of the
\* document and the descendant query answers, and the assigned hidden input
\* is connected outside the host and is returned where the query finds none.
C17_Witness ==
    /\ call.op = "get bindings"
    /\ forElementField = "l2" /\ "l2" \notin document /\ trace[1].el = "l1"
    /\ inputElementField = "i2" /\ ~Assigned("i2") /\ trace[2].el = "i1"
    /\ hiddenInputElementField = "h1" /\ "h1" \notin subtree /\ trace[3].el = "h1"

====
